---- MODULE Spec2Model ----
(***************************************************************************)
(* echo-guard: the MFCC feature pipeline (extractMFCC) and the heuristic   *)
(* scorer (analyzeTemporalConsistency) of src/src/utils/audioProcessing.ts *)
(*                                                                         *)
(* Abstractions, the same for every definition below:                      *)
(*  - the signal (channelData) is represented by its length; a slice of it *)
(*    is the half-open interval [start, end) of the sample indices it      *)
(*    holds, clamped to the signal as Float32Array.prototype.slice clamps; *)
(*  - inside extractMFCC every per-frame array (windowed frame, spectrum,  *)
(*    mel spectrum, MFCC row) is represented by its length;                *)
(*  - the scorer works on matrices of small integers; a JavaScript number  *)
(*    is an exact rational num/den, or NaN, or Infinity.                   *)
(*                                                                         *)
(* Further parts, each with its own specification: the scoring half of     *)
(* analyzeForgery (SpecForgery), the all-zero signal through the DCT and   *)
(* the scorer (SpecSilence), the analyze-audio edge function's temporal    *)
(* analysis (SpecServer), applyHammingWindow on values (SpecWindow) and    *)
(* the audio_analyses table behind its row-level security (SpecDb).        *)
(***************************************************************************)
EXTENDS Integers, Sequences, FiniteSets, TLC

VARIABLES
    call,            \* the exported/internal function under execution
    pc,              \* position inside that function
    channelLength,   \* audioBuffer.getChannelData(0).length
    sampleRate,      \* audioBuffer.sampleRate
    numFrames,       \* local numFrames of extractMFCC
    i,               \* loop counter of the function under execution
    frames,          \* the slices taken at line 17, in loop order
    mfccFeatures,    \* extractMFCC: the rows pushed so far (row = its length)
    result,          \* how extractMFCC ended: "pending" | "returned" | "InvalidInput"
    matrix,          \* analyzeTemporalConsistency: its argument mfccFeatures
    totalVariance,   \* analyzeTemporalConsistency: local totalVariance
    consistency,     \* analyzeTemporalConsistency: returned number
    ppc,             \* upload flow (extractMFCC, then analyzeForgery): position
    sig,             \* upload flow: the decoded all-zero signal, or NoSignal
    features,        \* upload flow: the matrix mfcc / mfccFeatures, with values
    rowIndex,        \* upload flow: loop counter of the running loop
    score,           \* analyzeForgery: the classifier's output
    temporalConsistency, \* analyzeForgery: local temporalConsistency
    anomalyScore,    \* analyzeSpectralAnomaly: local anomalyScore
    spectralAnomaly, \* analyzeForgery: local spectralAnomaly
    finalScore,      \* analyzeForgery: the returned number
    handlerPc,       \* analyze-audio handler: position
    reqFeatures,     \* analyze-audio handler: mfccFeatures of the request body
    frameDiffs,      \* analyze-audio handler: local frameDiffs
    avgDelta,        \* analyze-audio handler: local avgDelta
    maxDelta,        \* analyze-audio handler: local maxDelta
    deltaVariance,   \* analyze-audio handler: local deltaVariance
    suspiciousFrames, \* analyze-audio handler: local suspiciousFrames (indices)
    temporalAnalysis, \* analyze-audio handler: analysisData.temporalAnalysis
    windowPc,        \* applyHammingWindow: position
    windowFrame,     \* applyHammingWindow: its argument frame
    windowIndex,     \* applyHammingWindow: loop counter i
    windowed,        \* applyHammingWindow: local windowed
    user_roles,      \* table public.user_roles
    audio_analyses,  \* table public.audio_analyses
    nextId,          \* number of rows inserted so far into audio_analyses, plus 1
    analyses,        \* History page: state `analyses`, per signed-in user
    viz,             \* MFCCVisualizer: the render effect (record of its locals)
    http,            \* analyze-audio handler: request, gateway reply, response
    loader,          \* initializeModel: forgeryModel and the calls in flight
    page,            \* Index page: its React state and the runs in flight
    cnn,             \* analyzeForgery (CNN variant): locals of the tidy callback
    status           \* AnalysisResults: getStatus, its props and its result

coreVars == <<call, pc, channelLength, sampleRate, numFrames, i, frames,
              mfccFeatures, result, matrix, totalVariance, consistency>>
flowVars == <<ppc, sig, features, rowIndex, score, temporalConsistency,
              anomalyScore, spectralAnomaly, finalScore>>
serverVars == <<handlerPc, reqFeatures, frameDiffs, avgDelta, maxDelta,
                deltaVariance, suspiciousFrames, temporalAnalysis>>
windowVars == <<windowPc, windowFrame, windowIndex, windowed>>
dbVars == <<user_roles, audio_analyses, nextId, analyses>>
uiVars == <<viz, http, loader, page, cnn, status>>
vars == <<coreVars, flowVars, serverVars, windowVars, dbVars, uiVars>>

\* what an action of one part of the model leaves alone
notCoreVars == <<flowVars, serverVars, windowVars, dbVars, uiVars>>
notFlowVars == <<coreVars, serverVars, windowVars, dbVars, uiVars>>
notServerVars == <<coreVars, flowVars, windowVars, dbVars, uiVars>>
notWindowVars == <<coreVars, flowVars, serverVars, dbVars, uiVars>>
notDbVars == <<coreVars, flowVars, serverVars, windowVars, uiVars>>
notUiVars == <<coreVars, flowVars, serverVars, windowVars, dbVars>>
notVizVars == <<notUiVars, http, loader, page, cnn, status>>
notHttpVars == <<coreVars, flowVars, windowVars, dbVars, viz, loader, page, cnn, status>>
notLoaderVars == <<notUiVars, viz, http, page, cnn, status>>
notPageVars == <<notUiVars, viz, http, loader, cnn, status>>
notCnnVars == <<notUiVars, viz, http, loader, page, status>>
notStatusVars == <<notUiVars, viz, http, loader, page, cnn>>

Min(a, b) == IF a < b THEN a ELSE b
Max(a, b) == IF a > b THEN a ELSE b
Abs(a) == IF a < 0 THEN -a ELSE a

(***************************************************************************)
(* Program constants.                                                      *)
(***************************************************************************)
frameSize == 2048
hopSize == 512
maxFrames == 100
numCoefficients == 13
numFilters == 26
varianceScale == 100

(***************************************************************************)
(* Bounds of the model.                                                    *)
(***************************************************************************)
\* signal lengths reach (MaxHops + 1) * hopSize - 1 samples
MaxHops == 106
\* scorer matrices have at most MaxRows rows
MaxRows == 4

Residues == {0, 1, hopSize - 1}
Lengths == {q * hopSize + r : q \in 0..MaxHops, r \in Residues}
SampleRates == {-44100, 0, 44100}

\* values a coefficient of a scorer matrix may take
FeatureValues == {-5, 0, 20}
ConstRow(c) == [j \in 1..numCoefficients |-> c]
RampRow == [j \in 1..numCoefficients |-> j]
Rows == {ConstRow(c) : c \in FeatureValues} \cup {RampRow}
Matrices == UNION {[1..n -> Rows] : n \in 0..MaxRows}

(***************************************************************************)
(* JavaScript numbers, as far as the scorer needs them.                    *)
(***************************************************************************)
\* the value of a number variable that was not assigned yet
Unset == [kind |-> "unset", num |-> 0, den |-> 1]
NaN == [kind |-> "NaN", num |-> 0, den |-> 1]
Infinity == [kind |-> "inf", num |-> 1, den |-> 1]
Fin(n, d) == [kind |-> "fin", num |-> n, den |-> d]
One == Fin(1, 1)

\* a / b for integers a >= 0, b >= 0: 0/0 is NaN, a/0 is Infinity
JsDiv(a, b) ==
    IF b = 0 THEN (IF a = 0 THEN NaN ELSE Infinity) ELSE Fin(a, b)

\* Math.min(x, 1): NaN if x is NaN
MathMinOne(x) ==
    CASE x.kind = "NaN" -> NaN
      [] x.kind = "inf" -> One
      [] OTHER -> IF x.num >= x.den THEN One ELSE x

\* 1 - x for x <= 1
OneMinus(x) ==
    IF x.kind = "NaN" THEN NaN ELSE Fin(x.den - x.num, x.den)

\* no upload flow is running
NoSignal == [length |-> -1, sampleRate |-> 0]
FlowIdle ==
    /\ ppc = "idle"
    /\ sig = NoSignal
    /\ features = [unit |-> 1, rows |-> <<>>]
    /\ rowIndex = 0
    /\ score = Unset
    /\ temporalConsistency = Unset
    /\ anomalyScore = 0
    /\ spectralAnomaly = Unset
    /\ finalScore = Unset

\* the analyze-audio handler serves no request
NoAnalysis ==
    [avgFrameDelta |-> Unset, maxFrameDelta |-> Unset, deltaVariance |-> Unset,
     suspiciousFrameCount |-> 0, suspiciousFrames |-> <<>>]
ServerIdle ==
    /\ handlerPc = "idle"
    /\ reqFeatures = <<>>
    /\ frameDiffs = <<>>
    /\ avgDelta = Unset
    /\ maxDelta = Unset
    /\ deltaVariance = Unset
    /\ suspiciousFrames = <<>>
    /\ temporalAnalysis = NoAnalysis

\* applyHammingWindow is not running
WindowIdle ==
    /\ windowPc = "idle"
    /\ windowFrame = <<>>
    /\ windowIndex = 0
    /\ windowed = <<>>

\* the database is as the migration leaves it and nobody has signed up
DbIdle ==
    /\ user_roles = {}
    /\ audio_analyses = {}
    /\ nextId = 1
    /\ analyses = <<>>

\* a part of the model that is not running
NotRunning == [pc |-> "idle"]
VizIdle == viz = NotRunning
HttpIdle == http = NotRunning
LoaderIdle == loader = NotRunning
PageIdle == page = NotRunning
CnnIdle == cnn = NotRunning
StatusIdle == status = NotRunning
UiIdle == VizIdle /\ HttpIdle /\ LoaderIdle /\ PageIdle /\ CnnIdle /\ StatusIdle

NotCoreIdle == FlowIdle /\ ServerIdle /\ WindowIdle /\ DbIdle /\ UiIdle

(***************************************************************************)
(* extractMFCC (audioProcessing.ts, lines 4-35)                            *)
(***************************************************************************)
numFramesOf_plusOne(len) == (len - frameSize) \div hopSize + 1
numFramesOf_noFrameSize(len) == len \div hopSize
\* Math.floor((channelData.length - frameSize) / hopSize)
numFramesOf(len) == (len - frameSize) \div hopSize

loopBound_noCap(n) == n
loopBound_capOnly(n) == maxFrames
\* Math.min(numFrames, 100), the bound of the for loop
loopBound(n) == Min(n, maxFrames)

frameStartOf_skipFirst(k) == (k + 1) * hopSize
\* const frameStart = i * hopSize
frameStartOf(k) == k * hopSize

\* channelData.slice(lo, hi) for 0 <= lo <= hi: the indices are clamped to
\* the array, the result holds the samples lo..hi-1 that exist
slice(len, lo, hi) ==
    [start |-> Min(lo, len), end |-> Max(Min(lo, len), Min(hi, len))]

FrameLength(f) == f.end - f.start

\* new Float32Array(frame.length), filled index by index
applyHammingWindowLen(n) == n

\* one magnitude per k with 0 <= k < n / 2
computeSpectrumLen(n) == Cardinality({k \in 0..n : 2 * k < n})

\* one log energy per filter
applyMelFilterbankLen(n, sr, filters) == filters

\* one coefficient per k with 0 <= k < numCoefficients
computeDCTLen(n, coeffs) == coeffs

\* the per-frame chain of lines 20-29, on lengths
mfccOf(frame, sr) ==
    computeDCTLen(
        applyMelFilterbankLen(
            computeSpectrumLen(applyHammingWindowLen(FrameLength(frame))),
            sr, numFilters),
        numCoefficients)

ScorerIdle ==
    /\ matrix = <<>>
    /\ totalVariance = 0
    /\ consistency = Unset

ExtractorIdle ==
    /\ channelLength = 0
    /\ sampleRate = 0
    /\ numFrames = 0
    /\ frames = <<>>
    /\ mfccFeatures = <<>>
    /\ result = "pending"

\* a call extractMFCC(audioBuffer) about to execute line 5
InitExtract ==
    /\ call = "extractMFCC"
    /\ pc = "entry"
    /\ channelLength \in Lengths
    /\ sampleRate \in SampleRates
    /\ numFrames = 0
    /\ i = 0
    /\ frames = <<>>
    /\ mfccFeatures = <<>>
    /\ result = "pending"
    /\ ScorerIdle
    /\ NotCoreIdle

\* lines 5-15: the locals are set, the loop starts at i = 0
ExtractEnter ==
    /\ call = "extractMFCC"
    /\ pc = "entry"
    /\ numFrames' = numFramesOf(channelLength)
    /\ mfccFeatures' = <<>>
    /\ i' = 0
    /\ pc' = "loop"
    /\ UNCHANGED <<call, channelLength, sampleRate, frames, result,
                   matrix, totalVariance, consistency>>
    /\ UNCHANGED notCoreVars

\* lines 15-32: one iteration of the loop
ExtractFrame ==
    /\ call = "extractMFCC"
    /\ pc = "loop"
    /\ i < loopBound(numFrames)
    /\ LET frameStart == frameStartOf(i)
           frame == slice(channelLength, frameStart, frameStart + frameSize)
       IN /\ frames' = Append(frames, frame)
          /\ mfccFeatures' = Append(mfccFeatures, mfccOf(frame, sampleRate))
    /\ i' = i + 1
    /\ UNCHANGED <<call, pc, channelLength, sampleRate, numFrames, result,
                   matrix, totalVariance, consistency>>
    /\ UNCHANGED notCoreVars

\* lines 15 and 34: the loop condition fails, the matrix is returned
ExtractReturn ==
    /\ call = "extractMFCC"
    /\ pc = "loop"
    /\ ~(i < loopBound(numFrames))
    /\ pc' = "done"
    /\ result' = "returned"
    /\ UNCHANGED <<call, channelLength, sampleRate, numFrames, i, frames,
                   mfccFeatures, matrix, totalVariance, consistency>>
    /\ UNCHANGED notCoreVars

(***************************************************************************)
(* analyzeTemporalConsistency (audioProcessing.ts, lines 214-227)          *)
(***************************************************************************)
\* lines 218-221: the inner loop over j, from column j to the last one
RECURSIVE frameDiffFrom(_, _, _)
frameDiffFrom(cur, prev, j) ==
    IF j > Len(cur) THEN 0
    ELSE Abs(cur[j] - prev[j]) + frameDiffFrom(cur, prev, j + 1)

frameDiff(cur, prev) == frameDiffFrom(cur, prev, 1)

normalizedVariance_rowsMinusOne(total, rows) ==
    MathMinOne(JsDiv(total, (rows - 1) * varianceScale))
\* Math.min(totalVariance / (mfccFeatures.length * 100), 1)
normalizedVariance(total, rows) ==
    MathMinOne(JsDiv(total, rows * varianceScale))

\* a call analyzeTemporalConsistency(matrix) about to execute line 215
InitScore ==
    /\ call = "analyzeTemporalConsistency"
    /\ pc = "entry"
    /\ matrix \in Matrices
    /\ totalVariance = 0
    /\ consistency = Unset
    /\ i = 0
    /\ ExtractorIdle
    /\ NotCoreIdle

\* lines 215-217: totalVariance = 0, the loop starts at i = 1
ConsistencyEnter ==
    /\ call = "analyzeTemporalConsistency"
    /\ pc = "entry"
    /\ totalVariance' = 0
    /\ i' = 1
    /\ pc' = "loop"
    /\ UNCHANGED <<call, channelLength, sampleRate, numFrames, frames,
                   mfccFeatures, result, matrix, consistency>>
    /\ UNCHANGED notCoreVars

\* lines 217-223: one iteration; the code's row i is matrix[i + 1] here
ConsistencyRow ==
    /\ call = "analyzeTemporalConsistency"
    /\ pc = "loop"
    /\ i < Len(matrix)
    /\ totalVariance' = totalVariance + frameDiff(matrix[i + 1], matrix[i])
    /\ i' = i + 1
    /\ UNCHANGED <<call, pc, channelLength, sampleRate, numFrames, frames,
                   mfccFeatures, result, matrix, consistency>>
    /\ UNCHANGED notCoreVars

\* lines 225-226: the loop condition fails, the score is returned
ConsistencyReturn ==
    /\ call = "analyzeTemporalConsistency"
    /\ pc = "loop"
    /\ ~(i < Len(matrix))
    /\ consistency' = OneMinus(normalizedVariance(totalVariance, Len(matrix)))
    /\ pc' = "done"
    /\ UNCHANGED <<call, channelLength, sampleRate, numFrames, i, frames,
                   mfccFeatures, result, matrix, totalVariance>>
    /\ UNCHANGED notCoreVars

Init == InitExtract \/ InitScore

Next ==
    \/ ExtractEnter
    \/ ExtractFrame
    \/ ExtractReturn
    \/ ConsistencyEnter
    \/ ConsistencyRow
    \/ ConsistencyReturn

Spec == Init /\ [][Next]_vars

(***************************************************************************)
(* The scoring half of analyzeForgery (audioProcessing.ts, lines 198-209)  *)
(* with analyzeSpectralAnomaly (lines 230-244), on matrices with values.   *)
(* A matrix is [unit, rows]: the integer e in a row stands for the         *)
(* coefficient e / unit.                                                   *)
(***************************************************************************)
\* scorer matrices of the upload flow have at most MaxScoreRows rows
MaxScoreRows == 3

CoreIdle ==
    /\ call = "idle"
    /\ pc = "idle"
    /\ i = 0
    /\ ExtractorIdle
    /\ ScorerIdle

NotFlowIdle == CoreIdle /\ ServerIdle /\ WindowIdle /\ DbIdle /\ UiIdle
NotServerIdle == CoreIdle /\ FlowIdle /\ WindowIdle /\ DbIdle /\ UiIdle
NotWindowIdle == CoreIdle /\ FlowIdle /\ ServerIdle /\ DbIdle /\ UiIdle
NotDbIdle == CoreIdle /\ FlowIdle /\ ServerIdle /\ WindowIdle /\ UiIdle
NotUiIdle == CoreIdle /\ FlowIdle /\ ServerIdle /\ WindowIdle /\ DbIdle

PadRow(prefix) ==
    [j \in 1..numCoefficients |-> IF j <= Len(prefix) THEN prefix[j] ELSE 0]

\* rows in units of 1/20, by their population variance
RowVar100 == PadRow(<<500, -500, 100, -100>>)        \* exactly 100
RowVarAbove100 == PadRow(<<500, -500, 100, -100, 1, -1>>)
RowVar50 == PadRow(<<360, -360, 20, -20>>)           \* exactly 50
RowVarHundredth == PadRow(<<5, -5, 1, -1>>)          \* exactly 0.01
RowVarBelowHundredth == PadRow(<<5, -5>>)
RowFlat == PadRow(<<>>)                              \* exactly 0
BandRows == {RowVar100, RowVarAbove100, RowVar50, RowVarHundredth,
             RowVarBelowHundredth, RowFlat}

ScoreMatrices ==
    {[unit |-> 20, rows |-> m] :
        m \in UNION {[1..n -> BandRows] : n \in 0..MaxScoreRows}}
    \cup {[unit |-> 1, rows |-> [r \in 1..n |-> <<>>]] : n \in 1..MaxScoreRows}

\* the sigmoid output of the classifier, as far as the model draws it
Scores == {Fin(0, 1), Fin(1, 2), Fin(1, 1)}

\* row.reduce((a, b) => a + b, 0), from index j on
RECURSIVE reduceSumFrom(_, _)
reduceSumFrom(row, j) ==
    IF j > Len(row) THEN 0 ELSE row[j] + reduceSumFrom(row, j + 1)

\* row.reduce((a, b) => a + Math.pow(b - mean, 2), 0) with mean = s / n,
\* times n * n, from index j on
RECURSIVE reduceSquaresFrom(_, _, _, _)
reduceSquaresFrom(row, n, s, j) ==
    IF j > Len(row) THEN 0
    ELSE (n * row[j] - s) * (n * row[j] - s) + reduceSquaresFrom(row, n, s, j + 1)

\* lines 234-235: mean and variance of one row; 0 / 0 for a row of length 0
rowVariance(row, unit) ==
    LET n == Len(row)
        s == reduceSumFrom(row, 1)
    IN IF n = 0 THEN NaN
       ELSE Fin(reduceSquaresFrom(row, n, s, 1), n * n * n * unit * unit)

\* x > 100 and x < 0.01 for a number x >= 0; false for NaN
greaterThan100(x) == x.kind = "fin" /\ x.num > 100 * x.den
lessThanHundredth(x) == x.kind = "fin" /\ x.num < x.den /\ 100 * x.num < x.den

isAnomalous_inclusive(v) ==
    \/ v.kind = "fin" /\ v.num >= 100 * v.den
    \/ v.kind = "fin" /\ v.num <= v.den /\ 100 * v.num <= v.den
isAnomalous_and(v) == greaterThan100(v) /\ lessThanHundredth(v)
isAnomalous_lowerOnly(v) == lessThanHundredth(v)
\* line 238: variance > 100 || variance < 0.01
isAnomalous(v) == greaterThan100(v) \/ lessThanHundredth(v)

\* lines 217-223, as one sum: the frame differences of rows idx+1.. against
\* their predecessors
RECURSIVE totalVarianceOver(_, _, _)
totalVarianceOver(rows, lo, hi) ==
    IF lo > hi THEN 0
    ELSE IF lo = hi THEN frameDiff(rows[lo + 1], rows[lo])
    ELSE totalVarianceOver(rows, lo, (lo + hi) \div 2)
         + totalVarianceOver(rows, (lo + hi) \div 2 + 1, hi)

\* the loop of lines 218-222 from row idx on; integer addition is
\* associative, so the range is summed by halves
totalVarianceFrom(rows, idx) == totalVarianceOver(rows, idx, Len(rows) - 1)

\* lines 214-227 on a matrix with unit
analyzeTemporalConsistency(m) ==
    OneMinus(MathMinOne(
        JsDiv(totalVarianceFrom(m.rows, 1), Len(m.rows) * varianceScale * m.unit)))

\* Math.max(0, x) for x <= 1: NaN if x is NaN
MathMaxZero(x) ==
    IF x.kind = "NaN" THEN NaN
    ELSE IF x.num < 0 THEN Fin(0, 1) ELSE x

combine_noClamp(s, tc, sa) ==
    IF s.kind = "NaN" \/ tc.kind = "NaN" \/ sa.kind = "NaN" THEN NaN
    ELSE Fin(60 * s.num * tc.den * sa.den + 25 * tc.num * s.den * sa.den
                + 15 * (sa.den + sa.num) * s.den * tc.den,
             100 * s.den * tc.den * sa.den)
\* lines 207-209: 0.6 * score + 0.25 * temporalConsistency
\* + 0.15 * (1 - spectralAnomaly), clamped to [0, 1]
combine(s, tc, sa) ==
    IF s.kind = "NaN" \/ tc.kind = "NaN" \/ sa.kind = "NaN" THEN NaN
    ELSE MathMaxZero(MathMinOne(
        Fin(60 * s.num * tc.den * sa.den + 25 * tc.num * s.den * sa.den
                + 15 * (sa.den - sa.num) * s.den * tc.den,
            100 * s.den * tc.den * sa.den)))

\* a call analyzeForgery(mfccFeatures), the model initialised, at line 198
InitForgery ==
    /\ ppc = "predict"
    /\ sig = NoSignal
    /\ features \in ScoreMatrices
    /\ rowIndex = 0
    /\ score = Unset
    /\ temporalConsistency = Unset
    /\ anomalyScore = 0
    /\ spectralAnomaly = Unset
    /\ finalScore = Unset
    /\ NotFlowIdle

\* lines 198-199: the prediction of the classifier, a sigmoid output
Predict ==
    /\ ppc = "predict"
    /\ score' \in Scores
    /\ ppc' = "temporal"
    /\ UNCHANGED <<sig, features, rowIndex, temporalConsistency, anomalyScore,
                   spectralAnomaly, finalScore>>
    /\ UNCHANGED notFlowVars

\* line 203, and line 231 of the call that follows
Temporal ==
    /\ ppc = "temporal"
    /\ temporalConsistency' = analyzeTemporalConsistency(features)
    /\ anomalyScore' = 0
    /\ rowIndex' = 0
    /\ ppc' = "anomaly"
    /\ UNCHANGED <<sig, features, score, spectralAnomaly, finalScore>>
    /\ UNCHANGED notFlowVars

\* lines 233-241: one iteration; the code's row i is features.rows[i + 1]
AnomalyRow ==
    /\ ppc = "anomaly"
    /\ rowIndex < Len(features.rows)
    /\ anomalyScore' =
         IF isAnomalous(rowVariance(features.rows[rowIndex + 1], features.unit))
         THEN anomalyScore + 1 ELSE anomalyScore
    /\ rowIndex' = rowIndex + 1
    /\ UNCHANGED <<ppc, sig, features, score, temporalConsistency,
                   spectralAnomaly, finalScore>>
    /\ UNCHANGED notFlowVars

\* line 243 and line 204
AnomalyReturn ==
    /\ ppc = "anomaly"
    /\ ~(rowIndex < Len(features.rows))
    /\ spectralAnomaly' = MathMinOne(JsDiv(anomalyScore, Len(features.rows)))
    /\ ppc' = "combine"
    /\ UNCHANGED <<sig, features, rowIndex, score, temporalConsistency,
                   anomalyScore, finalScore>>
    /\ UNCHANGED notFlowVars

\* lines 207-209
Combine ==
    /\ ppc = "combine"
    /\ finalScore' = combine(score, temporalConsistency, spectralAnomaly)
    /\ ppc' = "done"
    /\ UNCHANGED <<sig, features, rowIndex, score, temporalConsistency,
                   anomalyScore, spectralAnomaly>>
    /\ UNCHANGED notFlowVars

NextForgery ==
    \/ Predict
    \/ Temporal
    \/ AnomalyRow
    \/ AnomalyReturn
    \/ Combine

SpecForgery == InitForgery /\ [][NextForgery]_vars

(***************************************************************************)
(* The upload flow on an all-zero signal: extractMFCC with values, then    *)
(* analyzeForgery (Index.tsx lines 46 and 54).  An all-zero array is       *)
(* represented by its length.  Log energies are in units of 1/1000, the    *)
(* cosines of the DCT in units of 1/1000, a coefficient is rounded to the  *)
(* unit of the matrix.                                                     *)
(***************************************************************************)
\* Math.log(0 + 1e-10) = -23.0259, in units of 1/1000
logFloorMilli == -23026

\* Math.cos(Math.PI * m / 52) for m = 0..103, in units of 1/1000
CosTable ==
    <<
      1000, 998, 993, 984, 971, 955, 935, 912, 885, 856, 823, 787, 749,
      707, 663, 617, 568, 517, 465, 410, 355, 298, 239, 180, 121, 60,
      0, -60, -121, -180, -239, -298, -355, -410, -465, -517, -568, -617, -663,
      -707, -749, -787, -823, -856, -885, -912, -935, -955, -971, -984, -993, -998,
      -1000, -998, -993, -984, -971, -955, -935, -912, -885, -856, -823, -787, -749,
      -707, -663, -617, -568, -517, -465, -410, -355, -298, -239, -180, -121, -60,
      0, 60, 121, 180, 239, 298, 355, 410, 465, 517, 568, 617, 663,
      707, 749, 787, 823, 856, 885, 912, 935, 955, 971, 984, 993, 998
    >>

\* Math.cos((Math.PI * kk * (idx + 0.5)) / n) for n = 26
cosDCT(kk, idx) == CosTable[((kk * (2 * idx + 1)) % 104) + 1]

\* x / d rounded to the nearest integer, d > 0
RoundDiv(x, d) == (2 * x + d) \div (2 * d)

SilentLengths == {0, 2047, 2560, 3072, 22050, 44100, 60000}
SilentSignals == {[length |-> n, sampleRate |-> 44100] : n \in SilentLengths}

\* lines 73-83 for a spectrum of zeros: every sum stays 0, every filter
\* yields Math.log(0 + 1e-10)
melSpectrumOfZeros(spectrumLen, sr, filters) ==
    [f \in 1..filters |-> logFloorMilli]

\* lines 94-97: the inner loop over i, from index idx on (units of 1e-6)
RECURSIVE dctSumFrom(_, _, _)
dctSumFrom(melSpectrum, kk, idx) ==
    IF idx >= Len(melSpectrum) THEN 0
    ELSE melSpectrum[idx + 1] * cosDCT(kk, idx)
           + dctSumFrom(melSpectrum, kk, idx + 1)

computeDCT_skipFirst(melSpectrum, coeffs) ==
    [c \in 1..coeffs |-> dctSumFrom(melSpectrum, c, 0)]
\* lines 89-102: coefficient k = 0..coeffs-1 is entry k + 1 (units of 1e-6)
computeDCT(melSpectrum, coeffs) ==
    [c \in 1..coeffs |-> dctSumFrom(melSpectrum, c - 1, 0)]

\* lines 20-29 for a frame of zeros, the row in the unit of the matrix
mfccOfZeros(frame, sr, unit) ==
    LET windowedLen == applyHammingWindowLen(FrameLength(frame))
        spectrumLen == computeSpectrumLen(windowedLen)
        melSpectrum == melSpectrumOfZeros(spectrumLen, sr, numFilters)
        mfcc == computeDCT(melSpectrum, numCoefficients)
    IN [c \in 1..numCoefficients |-> RoundDiv(mfcc[c] * unit, 1000000)]

\* handleFileSelect has decoded an all-zero buffer and calls extractMFCC
InitSilence ==
    /\ ppc = "extract"
    /\ sig \in SilentSignals
    /\ features = [unit |-> 1, rows |-> <<>>]
    /\ rowIndex = 0
    /\ score = Unset
    /\ temporalConsistency = Unset
    /\ anomalyScore = 0
    /\ spectralAnomaly = Unset
    /\ finalScore = Unset
    /\ NotFlowIdle

\* extractMFCC lines 15-32: one iteration of the loop, with values
ExtractZeroFrame ==
    /\ ppc = "extract"
    /\ rowIndex < loopBound(numFramesOf(sig.length))
    /\ LET frameStart == frameStartOf(rowIndex)
           frame == slice(sig.length, frameStart, frameStart + frameSize)
       IN features' =
            [features EXCEPT
                !.rows = Append(@, mfccOfZeros(frame, sig.sampleRate, features.unit))]
    /\ rowIndex' = rowIndex + 1
    /\ UNCHANGED <<ppc, sig, score, temporalConsistency, anomalyScore,
                   spectralAnomaly, finalScore>>
    /\ UNCHANGED notFlowVars

\* extractMFCC line 34, Index.tsx lines 46-54: the matrix is returned and
\* handed to analyzeForgery
ExtractZeroReturn ==
    /\ ppc = "extract"
    /\ ~(rowIndex < loopBound(numFramesOf(sig.length)))
    /\ ppc' = "predict"
    /\ rowIndex' = 0
    /\ UNCHANGED <<sig, features, score, temporalConsistency, anomalyScore,
                   spectralAnomaly, finalScore>>
    /\ UNCHANGED notFlowVars

NextSilence ==
    \/ ExtractZeroFrame
    \/ ExtractZeroReturn
    \/ NextForgery

SpecSilence == InitSilence /\ [][NextSilence]_vars

(***************************************************************************)
(* The analyze-audio edge function, temporal analysis (lines 19-20 and     *)
(* 34-66 of the serve handler), on matrices of integers.                   *)
(***************************************************************************)
\* request matrices have at most MaxSummaryRows rows
MaxSummaryRows == 75

NegInfinity == [kind |-> "-inf", num |-> -1, den |-> 1]

\* a matrix with a row of ones every `period` rows; with ripple, every
\* second other row differs from zero in one coefficient
SummaryMatrix(n, period, ripple) ==
    [r \in 1..n |->
        IF r % period = 0 THEN ConstRow(1)
        ELSE IF ripple /\ r % 2 = 0 THEN PadRow(<<1>>) ELSE RowFlat]
Periods == {3, 8, 12}
SummaryMatrices ==
    {SummaryMatrix(n, period, ripple) :
        n \in 0..MaxSummaryRows, period \in Periods, ripple \in BOOLEAN}

\* line 20: mfccFeatures[0]?.length || 0
numCoeffsOf(m) == IF Len(m) = 0 THEN 0 ELSE Len(m[1])

\* lines 37-40: the inner loop over j < numCoeffs, from column j on
RECURSIVE diffFrom(_, _, _, _)
diffFrom(cur, prev, numCoeffs, j) ==
    IF j > numCoeffs THEN 0
    ELSE Abs(cur[j] - prev[j]) + diffFrom(cur, prev, numCoeffs, j + 1)

\* lines 35-42: frameDiffs; +diff.toFixed(4) leaves an integer unchanged
frameDiffsOf(m) ==
    [d \in 1..(IF Len(m) = 0 THEN 0 ELSE Len(m) - 1) |->
        diffFrom(m[d + 1], m[d], numCoeffsOf(m), 1)]

\* frameDiffs.reduce((a, b) => a + b, 0) over the indices lo..hi; integer
\* addition is associative, so the range is summed by halves
RECURSIVE sumOver(_, _, _)
sumOver(ds, lo, hi) ==
    IF lo > hi THEN 0
    ELSE IF lo = hi THEN ds[lo]
    ELSE sumOver(ds, lo, (lo + hi) \div 2) + sumOver(ds, (lo + hi) \div 2 + 1, hi)

\* Math.max(...frameDiffs) over the indices lo..hi, as an integer
RECURSIVE maxOver(_, _, _)
maxOver(ds, lo, hi) ==
    IF lo = hi THEN ds[lo]
    ELSE Max(maxOver(ds, lo, (lo + hi) \div 2), maxOver(ds, (lo + hi) \div 2 + 1, hi))

\* line 44: Math.max(...frameDiffs); -Infinity for no argument
maxDeltaOf(ds) == IF Len(ds) = 0 THEN NegInfinity ELSE Fin(maxOver(ds, 1, Len(ds)), 1)

\* frameDiffs.reduce((a, b) => a + (b - avgDelta) ** 2, 0) with
\* avgDelta = s / n, times n * n, over the indices lo..hi
RECURSIVE squaresOver(_, _, _, _, _)
squaresOver(ds, n, s, lo, hi) ==
    IF lo > hi THEN 0
    ELSE IF lo = hi THEN (n * ds[lo] - s) * (n * ds[lo] - s)
    ELSE squaresOver(ds, n, s, lo, (lo + hi) \div 2)
         + squaresOver(ds, n, s, (lo + hi) \div 2 + 1, hi)

\* line 45: the population variance of the deltas, over n * n * n
deltaVarianceOf(ds) ==
    LET n == Len(ds)
    IN IF n = 0 THEN NaN
       ELSE Fin(squaresOver(ds, n, sumOver(ds, 1, n), 1, n), n * n * n)

exceedsThreshold_oneSigma(d, avg, variance) ==
    /\ avg.kind = "fin" /\ variance.kind = "fin"
    /\ LET n == avg.den
           gap == n * d - avg.num
       IN gap > 0 /\ n * gap * gap > variance.num
exceedsThreshold_inclusive(d, avg, variance) ==
    /\ avg.kind = "fin" /\ variance.kind = "fin"
    /\ LET n == avg.den
           gap == n * d - avg.num
       IN gap >= 0 /\ n * gap * gap >= 4 * variance.num
\* lines 48 and 51: d > avgDelta + 2 * Math.sqrt(deltaVariance), for
\* avgDelta = s / n and deltaVariance = q / n^3:  n * d - s > 0 and
\* n * (n * d - s)^2 > 4 * q; false when either is NaN
exceedsThreshold(d, avg, variance) ==
    /\ avg.kind = "fin" /\ variance.kind = "fin"
    /\ LET n == avg.den
           gap == n * d - avg.num
       IN gap > 0 /\ n * gap * gap > 4 * variance.num

\* lines 49-51: map to {frame, delta} (frame is the 0-based index) and
\* filter, keeping the order
suspiciousOf(ds, avg, variance) ==
    SelectSeq([d \in 1..Len(ds) |-> [frame |-> d - 1, delta |-> ds[d]]],
              LAMBDA t : exceedsThreshold(t.delta, avg, variance))

\* line 64: suspiciousFrames.slice(0, 10)
reported(fs) == SubSeq(fs, 1, Min(10, Len(fs)))

\* line 63: suspiciousFrames.length
countOf(fs) == Len(fs)

\* +x.toFixed(4): x rounded to 4 decimals, for x >= 0 or not finite
toFixed4(x) ==
    IF x.kind # "fin" THEN x
    ELSE LET q == x.num \div x.den
             r == x.num % x.den
             a == (r * 100) \div x.den
             r1 == (r * 100) % x.den
         IN Fin(q * 10000 + a * 100 + RoundDiv(r1 * 100, x.den), 10000)

\* the handler has parsed the request body, line 19 is next
InitServer ==
    /\ handlerPc = "diffs"
    /\ reqFeatures \in SummaryMatrices
    /\ frameDiffs = <<>>
    /\ avgDelta = Unset
    /\ maxDelta = Unset
    /\ deltaVariance = Unset
    /\ suspiciousFrames = <<>>
    /\ temporalAnalysis = NoAnalysis
    /\ NotServerIdle

\* lines 19-20 and 35-42
ServerFrameDiffs ==
    /\ handlerPc = "diffs"
    /\ frameDiffs' = frameDiffsOf(reqFeatures)
    /\ handlerPc' = "stats"
    /\ UNCHANGED <<reqFeatures, avgDelta, maxDelta, deltaVariance,
                   suspiciousFrames, temporalAnalysis>>
    /\ UNCHANGED notServerVars

\* lines 43-45
ServerStats ==
    /\ handlerPc = "stats"
    /\ avgDelta' = JsDiv(sumOver(frameDiffs, 1, Len(frameDiffs)), Len(frameDiffs))
    /\ maxDelta' = maxDeltaOf(frameDiffs)
    /\ deltaVariance' = deltaVarianceOf(frameDiffs)
    /\ handlerPc' = "detect"
    /\ UNCHANGED <<reqFeatures, frameDiffs, suspiciousFrames, temporalAnalysis>>
    /\ UNCHANGED notServerVars

\* lines 48-51
ServerDetect ==
    /\ handlerPc = "detect"
    /\ suspiciousFrames' = suspiciousOf(frameDiffs, avgDelta, deltaVariance)
    /\ handlerPc' = "assemble"
    /\ UNCHANGED <<reqFeatures, frameDiffs, avgDelta, maxDelta, deltaVariance,
                   temporalAnalysis>>
    /\ UNCHANGED notServerVars

\* lines 53-66
ServerAssemble ==
    /\ handlerPc = "assemble"
    /\ temporalAnalysis' =
         [avgFrameDelta |-> toFixed4(avgDelta),
          maxFrameDelta |-> toFixed4(maxDelta),
          deltaVariance |-> toFixed4(deltaVariance),
          suspiciousFrameCount |-> countOf(suspiciousFrames),
          suspiciousFrames |-> reported(suspiciousFrames)]
    /\ handlerPc' = "assembled"
    /\ UNCHANGED <<reqFeatures, frameDiffs, avgDelta, maxDelta, deltaVariance,
                   suspiciousFrames>>
    /\ UNCHANGED notServerVars

NextServer ==
    \/ ServerFrameDiffs
    \/ ServerStats
    \/ ServerDetect
    \/ ServerAssemble

SpecServer == InitServer /\ [][NextServer]_vars

(***************************************************************************)
(* applyHammingWindow (audioProcessing.ts, lines 37-43), on values.        *)
(* Math.cos is exact where the cosine is rational: 2*cos(2*pi*p/q) is an   *)
(* integer exactly when the reduced denominator of p/q is 1, 2, 3, 4 or 6; *)
(* at every other angle the cosine lies strictly between -1 and 1 and the  *)
(* coefficient strictly between 0.08 and 1.                                *)
(***************************************************************************)
\* frames have at most MaxWindowLength samples
MaxWindowLength == 7
Samples == {-1, 1}
WindowFrames ==
    UNION {[1..n -> Samples] : n \in 0..MaxWindowLength}

RECURSIVE gcd(_, _)
gcd(a, b) == IF b = 0 THEN a ELSE gcd(b, a % b)

\* 2 * Math.cos(2 * Math.PI * p / q) for q > 0, where it is an integer
twoCos(p, q) ==
    LET g == gcd(p, q)
        u == q \div g
    IN CASE u = 1 -> 2
         [] u = 2 -> -2
         [] u = 3 -> -1
         [] u = 4 -> 0
         [] u = 6 -> 1
         [] OTHER -> 3

\* a coefficient strictly between 0.08 and 1.0, at p/q of a turn
Inner(p, q) == [kind |-> "inner", num |-> p, den |-> q]

hammingCoefficient_periodic(idx, n) ==
    IF twoCos(idx, n) = 3 THEN Inner(idx, n)
    ELSE Fin(54 - 23 * twoCos(idx, n), 100)
\* line 40: 0.54 - 0.46 * Math.cos((2 * Math.PI * i) / (frame.length - 1)),
\* in hundredths; for frame.length = 1 the quotient is 0 / 0, and the
\* cosine of NaN (or of Infinity) is NaN
hammingCoefficient(idx, n) ==
    IF n - 1 = 0 THEN NaN
    ELSE IF twoCos(idx, n - 1) = 3 THEN Inner(idx, n - 1)
    ELSE Fin(54 - 23 * twoCos(idx, n - 1), 100)

\* line 40: frame[i] * coefficient, for a sample of -1 or 1
times(sample, coefficient) ==
    CASE coefficient.kind = "NaN" -> NaN
      [] coefficient.kind = "fin" -> Fin(sample * coefficient.num, coefficient.den)
      [] OTHER -> [kind |-> "inner", num |-> sample * coefficient.num,
                   den |-> coefficient.den]

\* line 38 has run: windowed = new Float32Array(frame.length), all zero
InitWindow ==
    /\ windowPc = "loop"
    /\ windowFrame \in WindowFrames
    /\ windowIndex = 0
    /\ windowed = [k \in 1..Len(windowFrame) |-> Fin(0, 1)]
    /\ NotWindowIdle

\* lines 39-41: one iteration (index i is entry i + 1)
WindowSample ==
    /\ windowPc = "loop"
    /\ windowIndex < Len(windowFrame)
    /\ windowed' = [windowed EXCEPT ![windowIndex + 1] =
                      times(windowFrame[windowIndex + 1],
                            hammingCoefficient(windowIndex, Len(windowFrame)))]
    /\ windowIndex' = windowIndex + 1
    /\ UNCHANGED <<windowPc, windowFrame>>
    /\ UNCHANGED notWindowVars

\* lines 39 and 42: the loop ends, return windowed
WindowReturn ==
    /\ windowPc = "loop"
    /\ windowIndex >= Len(windowFrame)
    /\ windowPc' = "done"
    /\ UNCHANGED <<windowFrame, windowIndex, windowed>>
    /\ UNCHANGED notWindowVars

NextWindow == WindowSample \/ WindowReturn

SpecWindow == InitWindow /\ [][NextWindow]_vars

(***************************************************************************)
(* The audio_analyses table behind its row-level security policies         *)
(* (migration 20251116060013, lines 16-89 and 130-149), the insert of the  *)
(* upload flow (Index.tsx, lines 57-73) and the History page's select      *)
(* (History page, fetchAnalyses).  A request runs as the authenticated     *)
(* user uid; the permissive policies of one command are OR-ed.             *)
(***************************************************************************)
\* at most MaxAnalyses rows are ever inserted
MaxAnalyses == 2
Users == {"u1", "u2", "u3"}

\* public.has_role(_user_id, _role)
has_role(user_id, role) ==
    \E t \in user_roles : t.user_id = user_id /\ t.role = role

\* "Users can view their own analyses": USING (auth.uid() = user_id)
UsersCanViewTheirOwnAnalyses(uid, t) == uid = t.user_id
\* "Admins can view all analyses": USING (has_role(auth.uid(), 'admin'))
AdminsCanViewAllAnalyses(uid, t) == has_role(uid, "admin")
\* "Users can create their own analyses": WITH CHECK (auth.uid() = user_id)
UsersCanCreateTheirOwnAnalyses(uid, t) == uid = t.user_id
\* "Users can delete their own analyses": USING (auth.uid() = user_id)
UsersCanDeleteTheirOwnAnalyses(uid, t) == uid = t.user_id

\* the rows a SELECT run as uid sees
selectable(uid) ==
    {t \in audio_analyses :
        UsersCanViewTheirOwnAnalyses(uid, t) \/ AdminsCanViewAllAnalyses(uid, t)}

\* .select("*").order("created_at", { ascending: false }): the visible rows,
\* newest first (ids are handed out in the order of creation)
selectAll(uid) ==
    LET newestFirst == [d \in 1..(nextId - 1) |-> nextId - d]
        visible == SelectSeq(newestFirst,
                             LAMBDA id : \E t \in selectable(uid) : t.id = id)
    IN [d \in 1..Len(visible) |->
           CHOOSE t \in selectable(uid) : t.id = visible[d]]

\* every user has signed up: handle_new_user gave each the role 'user'
InitDb ==
    /\ user_roles = {[user_id |-> u, role |-> "user"] : u \in Users}
    /\ audio_analyses = {}
    /\ nextId = 1
    /\ analyses = [u \in Users |-> <<>>]
    /\ NotDbIdle

\* the database owner makes a user an admin (an INSERT into user_roles that
\* no policy opens to the users themselves; UNIQUE (user_id, role))
GrantAdmin ==
    /\ \E u \in Users :
         /\ ~has_role(u, "admin")
         /\ user_roles' = user_roles \cup {[user_id |-> u, role |-> "admin"]}
    /\ UNCHANGED <<audio_analyses, nextId, analyses>>
    /\ UNCHANGED notDbVars

\* a signed-in user inserts a row with some user_id; the upload flow sends
\* its own id, any other value is rejected by WITH CHECK
InsertAnalysis ==
    /\ nextId <= MaxAnalyses
    /\ \E uid \in Users, owner \in Users :
         LET t == [id |-> nextId, user_id |-> owner]
         IN IF UsersCanCreateTheirOwnAnalyses(uid, t)
            THEN /\ audio_analyses' = audio_analyses \cup {t}
                 /\ nextId' = nextId + 1
            ELSE UNCHANGED <<audio_analyses, nextId>>
    /\ UNCHANGED <<user_roles, analyses>>
    /\ UNCHANGED notDbVars

\* a signed-in user deletes by id: only rows passing USING are removed
DeleteAnalysis ==
    /\ \E uid \in Users, id \in 1..(nextId - 1) :
         audio_analyses' =
             {t \in audio_analyses :
                 ~(t.id = id /\ UsersCanDeleteTheirOwnAnalyses(uid, t))}
    /\ UNCHANGED <<user_roles, nextId, analyses>>
    /\ UNCHANGED notDbVars

\* History page, fetchAnalyses: setAnalyses(data || [])
FetchAnalyses ==
    /\ \E uid \in Users :
         analyses' = [analyses EXCEPT ![uid] = selectAll(uid)]
    /\ UNCHANGED <<user_roles, audio_analyses, nextId>>
    /\ UNCHANGED notDbVars

NextDb ==
    \/ GrantAdmin
    \/ InsertAnalysis
    \/ DeleteAnalysis
    \/ FetchAnalyses

SpecDb == InitDb /\ [][NextDb]_vars

(***************************************************************************)
(* MFCCVisualizer: the render effect (MFCCVisualizer.tsx, lines 11-39).    *)
(* viz holds the prop mfccData, whether canvasRef.current and the 2d       *)
(* context exist, and the effect's locals.                                 *)
(***************************************************************************)
\* the prop holds null or a matrix of at most MaxVizRows rows
MaxVizRows == 2
canvasWidth == 800
canvasHeight == 300
\* a nullable array: null, or the array `value`
Null == [isNull |-> TRUE, value |-> <<>>]
Some(m) == [isNull |-> FALSE, value |-> m]
VizInputs == {Null} \cup {Some(m) : m \in {y \in Matrices : Len(y) <= MaxVizRows}}

\* mfccData.flat()
RECURSIVE flat(_)
flat(m) == IF Len(m) = 0 THEN <<>> ELSE m[1] \o flat(Tail(m))

\* Math.min(...flat): Infinity for no argument
MathMin(values) ==
    IF Len(values) = 0 THEN Infinity
    ELSE Fin(CHOOSE x \in {values[k] : k \in 1..Len(values)} :
                 \A k \in 1..Len(values) : x <= values[k], 1)

\* Math.max(...flat): -Infinity for no argument
MathMax(values) ==
    IF Len(values) = 0 THEN NegInfinity
    ELSE Fin(CHOOSE x \in {values[k] : k \in 1..Len(values)} :
                 \A k \in 1..Len(values) : x >= values[k], 1)

\* line 32: (value - min) / (max - min), for finite min <= value <= max
normalizedOf(value, lo, hi) == JsDiv(value - lo.num, hi.num - lo.num)

\* the component rendered with some prop; the effect is about to run
InitViz ==
    /\ \E data \in VizInputs, canvas \in BOOLEAN, context \in BOOLEAN :
         viz = [pc |-> "guard", mfccData |-> data, canvasRef |-> canvas,
                ctx |-> context, cellWidth |-> Unset, cellHeight |-> Unset,
                min |-> Unset, max |-> Unset, row |-> 0, fills |-> <<>>]
    /\ http = NotRunning /\ loader = NotRunning /\ page = NotRunning
    /\ cnn = NotRunning /\ status = NotRunning
    /\ NotUiIdle

\* lines 12-16: return unless there is data, a canvas and a context
VizGuard ==
    /\ viz.pc = "guard"
    /\ viz' = [viz EXCEPT !.pc =
                 IF viz.mfccData.isNull \/ ~viz.canvasRef \/ ~viz.ctx
                 THEN "returned" ELSE "cells"]
    /\ UNCHANGED notVizVars

\* lines 18-21: mfccData[0] is undefined for an empty array, and reading
\* its length throws a TypeError
VizCells ==
    /\ viz.pc = "cells"
    /\ viz' = IF Len(viz.mfccData.value) = 0
              THEN [viz EXCEPT !.pc = "TypeError"]
              ELSE [viz EXCEPT !.pc = "minmax",
                               !.cellWidth = JsDiv(canvasWidth, Len(viz.mfccData.value[1])),
                               !.cellHeight = JsDiv(canvasHeight, Len(viz.mfccData.value))]
    /\ UNCHANGED notVizVars

\* lines 23-28
VizMinMax ==
    /\ viz.pc = "minmax"
    /\ viz' = [viz EXCEPT !.pc = "rows",
                          !.min = MathMin(flat(viz.mfccData.value)),
                          !.max = MathMax(flat(viz.mfccData.value))]
    /\ UNCHANGED notVizVars

\* lines 30-38: one row of the outer forEach; fills records, per fillRect,
\* the normalized value that gives the cell its lightness
VizRow ==
    /\ viz.pc = "rows"
    /\ viz.row < Len(viz.mfccData.value)
    /\ viz' = [viz EXCEPT !.row = viz.row + 1,
                          !.fills = viz.fills \o
                              [j \in 1..Len(viz.mfccData.value[viz.row + 1]) |->
                                  normalizedOf(viz.mfccData.value[viz.row + 1][j],
                                               viz.min, viz.max)]]
    /\ UNCHANGED notVizVars

\* line 38: the forEach is over
VizDone ==
    /\ viz.pc = "rows"
    /\ viz.row >= Len(viz.mfccData.value)
    /\ viz' = [viz EXCEPT !.pc = "done"]
    /\ UNCHANGED notVizVars

NextViz == VizGuard \/ VizCells \/ VizMinMax \/ VizRow \/ VizDone

SpecViz == InitViz /\ [][NextViz]_vars

(***************************************************************************)
(* initializeModel and the head of analyzeForgery (audioProcessing.ts,     *)
(* lines 148-165) under overlapping calls.  JavaScript runs each call up   *)
(* to its next await without interruption; loader.forgeryModel is 0 for    *)
(* null, or the number of the model instance built.                        *)
(***************************************************************************)
\* at most MaxCalls calls overlap
MaxCalls == 3
Calls == 1..MaxCalls
Entry == {"initializeModel", "analyzeForgery"}

InitLoader ==
    /\ loader = [pc |-> "run", forgeryModel |-> 0, built |-> 0,
                 entry |-> [c \in Calls |-> "none"],
                 at |-> [c \in Calls |-> "idle"]]
    /\ viz = NotRunning /\ http = NotRunning /\ page = NotRunning
    /\ cnn = NotRunning /\ status = NotRunning
    /\ NotUiIdle

\* lines 151-153 (through line 161 for analyzeForgery): the call tests
\* forgeryModel and either suspends at await tf.ready() or returns
LoaderCall ==
    /\ \E c \in Calls, fn \in Entry :
         /\ loader.at[c] = "idle"
         /\ loader' = [loader EXCEPT
                         !.entry[c] = fn,
                         !.at[c] = IF loader.forgeryModel = 0
                                   THEN "await tf.ready" ELSE "initialized"]
    /\ UNCHANGED notLoaderVars

\* lines 154-156: tf.ready() has resolved; build and assign
LoaderBuild ==
    /\ \E c \in Calls :
         /\ loader.at[c] = "await tf.ready"
         /\ loader' = [loader EXCEPT
                         !.built = loader.built + 1,
                         !.forgeryModel = loader.built + 1,
                         !.at[c] = "initialized"]
    /\ UNCHANGED notLoaderVars

\* initializeModel's promise resolves; lines 161-167 for analyzeForgery
LoaderResume ==
    /\ \E c \in Calls :
         /\ loader.at[c] = "initialized"
         /\ loader' = [loader EXCEPT
                         !.at[c] =
                            IF loader.entry[c] = "initializeModel" THEN "returned"
                            ELSE IF loader.forgeryModel = 0 THEN "Model not initialized"
                            ELSE "tidy"]
    /\ UNCHANGED notLoaderVars

NextLoader == LoaderCall \/ LoaderBuild \/ LoaderResume

SpecLoader == InitLoader /\ [][NextLoader]_vars

(***************************************************************************)
(* The Index page (Index.tsx): its React state, handleFileSelect (lines    *)
(* 30-89) as runs that suspend at each await, and the 'Upload New File'    *)
(* button (lines 130-136).  File r is the file selected by run r; 0 stands *)
(* for null (audioBuffer, mfccData, analysisResult) and for "" (fileName). *)
(***************************************************************************)
\* at most MaxRuns files are selected
MaxRuns == 3
Runs == 1..MaxRuns

NotStarted == [at |-> "idle", failedAt |-> "none", result |-> "none",
               insert |-> "none", toast |-> "none"]

\* the page is mounted, nothing selected; the session has a user or not
InitPage ==
    /\ \E u \in BOOLEAN :
         page = [pc |-> "mounted", user |-> u, audioBuffer |-> 0, mfccData |-> 0,
                 analysisResult |-> 0, isProcessing |-> FALSE, fileName |-> 0,
                 runs |-> [r \in Runs |-> NotStarted]]
    /\ viz = NotRunning /\ http = NotRunning /\ loader = NotRunning
    /\ cnn = NotRunning /\ status = NotRunning
    /\ NotUiIdle

finally_successOnly(pg, r, toastKind) ==
    [pg EXCEPT !.isProcessing = IF toastKind = "complete" THEN FALSE ELSE @,
               !.runs[r].at = "done",
               !.runs[r].toast = toastKind]
\* lines 75-88: the closing toast ("complete", or "error" from the catch
\* block) and the finally block
finally(pg, r, toastKind) ==
    [pg EXCEPT !.isProcessing = FALSE,
               !.runs[r].at = "done",
               !.runs[r].toast = toastKind]

\* lines 79-88: the catch block, entered from the await named by `at`
catch(pg, r) ==
    finally([pg EXCEPT !.runs[r].failedAt = pg.runs[r].at], r, "error")

shouldInsert_always(user) == TRUE
\* line 58: if (user)
shouldInsert(user) == user

\* lines 30-35: the uploader is rendered only while audioBuffer is null
\* (line 119); runs are numbered in the order of selection
SelectFile ==
    /\ \E r \in Runs :
         /\ page.audioBuffer = 0
         /\ page.runs[r].at = "idle"
         /\ \A q \in 1..(r - 1) : page.runs[q].at # "idle"
         /\ page' = [page EXCEPT !.isProcessing = TRUE,
                                 !.fileName = r,
                                 !.runs[r].at = "arrayBuffer"]
    /\ UNCHANGED notPageVars

\* line 35 settles; line 37 starts decoding
ArrayBufferSettles ==
    /\ \E r \in Runs, ok \in BOOLEAN :
         /\ page.runs[r].at = "arrayBuffer"
         /\ page' = IF ok THEN [page EXCEPT !.runs[r].at = "decodeAudioData"]
                    ELSE catch(page, r)
    /\ UNCHANGED notPageVars

\* line 37 settles; lines 39-54 up to the await of analyzeForgery
DecodeSettles ==
    /\ \E r \in Runs, ok \in BOOLEAN :
         /\ page.runs[r].at = "decodeAudioData"
         /\ page' = IF ok THEN [page EXCEPT !.audioBuffer = r,
                                            !.mfccData = r,
                                            !.runs[r].at = "analyzeForgery"]
                    ELSE catch(page, r)
    /\ UNCHANGED notPageVars

\* line 54 settles; lines 55-68 up to the await of the insert, or lines
\* 55-58 and 75-88 without a user
AnalysisSettles ==
    /\ \E r \in Runs, ok \in BOOLEAN :
         /\ page.runs[r].at = "analyzeForgery"
         /\ page' =
              IF ~ok THEN catch(page, r)
              ELSE LET set == [page EXCEPT !.analysisResult = r,
                                           !.runs[r].result = "returned"]
                   IN IF shouldInsert(page.user)
                      THEN [set EXCEPT !.runs[r].at = "insert",
                                       !.runs[r].insert = "attempted"]
                      ELSE finally(set, r, "complete")
    /\ UNCHANGED notPageVars

\* the insert of lines 59-68 settles with or without dbError; lines 70-88
InsertSettles ==
    /\ \E r \in Runs, ok \in BOOLEAN :
         /\ page.runs[r].at = "insert"
         /\ page' = finally([page EXCEPT !.runs[r].insert =
                                IF ok THEN "saved" ELSE "dbError"], r, "complete")
    /\ UNCHANGED notPageVars

\* lines 130-136: 'Upload New File', rendered while audioBuffer is set
UploadNewFile ==
    /\ page.audioBuffer # 0
    /\ page' = [page EXCEPT !.audioBuffer = 0, !.mfccData = 0,
                            !.analysisResult = 0, !.fileName = 0]
    /\ UNCHANGED notPageVars

\* a pending promise of run r settles
Settle(r) ==
    /\ page.runs[r].at \in {"arrayBuffer", "decodeAudioData", "analyzeForgery", "insert"}
    /\ ArrayBufferSettles \/ DecodeSettles \/ AnalysisSettles \/ InsertSettles
    /\ page'.runs[r] # page.runs[r]

NextPage ==
    \/ SelectFile
    \/ ArrayBufferSettles
    \/ DecodeSettles
    \/ AnalysisSettles
    \/ InsertSettles
    \/ UploadNewFile

SpecPage == InitPage /\ [][NextPage]_vars

\* every awaited promise settles
SpecPageSettling == SpecPage /\ \A r \in Runs : WF_vars(Settle(r))

(***************************************************************************)
(* The analyze-audio edge function as a whole (lines 9-176): the request,  *)
(* the summary (the actions of SpecServer), the call of the AI gateway and *)
(* the response.  http holds what the environment decides (method, body,   *)
(* LOVABLE_API_KEY, the gateway's answer) and what the handler returns.    *)
(***************************************************************************)
Methods == {"OPTIONS", "POST", "GET"}
\* the request body: not JSON, JSON without mfccFeatures, or a full body
Bodies == {"unparsable", "no mfccFeatures", "features"}
\* the gateway's answer: no answer (fetch rejects) or an HTTP status
GatewayStatuses == {0, 200, 402, 429, 500, 503}
\* the body of a 2xx answer
GatewayBodies == {"not JSON", "no tool call", "unparsable arguments", "tool call"}
RequestMatrices ==
    {SummaryMatrix(n, 3, FALSE) : n \in {0, 1, 7}}

NoResponse == [status |-> 0, cors |-> FALSE, body |-> "none"]
\* new Response(..., { status, headers: { ...corsHeaders, ... } })
Response(st, content) == [status |-> st, cors |-> TRUE, body |-> content]

\* Response.ok
ok(st) == st \in 200..299

passedThrough_only429(st) == st = 429
\* lines 140 and 146: the gateway statuses answered with the same status
passedThrough(st) == st \in {429, 402}

\* lines 169-175: the catch block
catchResponse(h) == [h EXCEPT !.pc = "responded", !.response = Response(500, "error")]

InitHttp ==
    /\ \E method \in Methods, body \in Bodies, key \in BOOLEAN,
          gateway \in GatewayStatuses, answer \in GatewayBodies,
          m \in RequestMatrices :
         http = [pc |-> "method", method |-> method, body |-> body,
                 mfccFeatures |-> m, LOVABLE_API_KEY |-> key,
                 gatewayStatus |-> gateway, gatewayBody |-> answer,
                 bodyRead |-> FALSE, response |-> NoResponse]
    /\ viz = NotRunning /\ loader = NotRunning /\ page = NotRunning
    /\ cnn = NotRunning /\ status = NotRunning
    /\ NotUiIdle

\* line 10
HttpMethod ==
    /\ http.pc = "method"
    /\ http' = IF http.method = "OPTIONS"
               THEN [http EXCEPT !.pc = "responded", !.response = Response(200, "null")]
               ELSE [http EXCEPT !.pc = "json"]
    /\ UNCHANGED notHttpVars
    /\ UNCHANGED serverVars

\* line 13: await req.json()
HttpJson ==
    /\ http.pc = "json"
    /\ http' = IF http.body = "unparsable"
               THEN catchResponse([http EXCEPT !.bodyRead = TRUE])
               ELSE [http EXCEPT !.pc = "key", !.bodyRead = TRUE]
    /\ UNCHANGED notHttpVars
    /\ UNCHANGED serverVars

\* lines 15-19: the key test; then mfccFeatures.length, a TypeError when
\* the body has no mfccFeatures; otherwise the summary starts
HttpKey ==
    /\ http.pc = "key"
    /\ IF ~http.LOVABLE_API_KEY \/ http.body = "no mfccFeatures"
       THEN /\ http' = catchResponse(http)
            /\ UNCHANGED serverVars
       ELSE /\ http' = [http EXCEPT !.pc = "summary"]
            /\ handlerPc' = "diffs"
            /\ reqFeatures' = http.mfccFeatures
            /\ UNCHANGED <<frameDiffs, avgDelta, maxDelta, deltaVariance,
                           suspiciousFrames, temporalAnalysis>>
    /\ UNCHANGED notHttpVars

\* lines 68-155: the fetch of the gateway and the test of response.ok
HttpFetch ==
    /\ http.pc = "summary"
    /\ handlerPc = "assembled"
    /\ http' = CASE http.gatewayStatus = 0 -> catchResponse(http)
                 [] ok(http.gatewayStatus) -> [http EXCEPT !.pc = "aiResult"]
                 [] passedThrough(http.gatewayStatus) ->
                      [http EXCEPT !.pc = "responded",
                                   !.response = Response(http.gatewayStatus, "error")]
                 [] OTHER -> catchResponse(http)
    /\ UNCHANGED notHttpVars
    /\ UNCHANGED serverVars

\* lines 157-168
HttpResult ==
    /\ http.pc = "aiResult"
    /\ http' = IF http.gatewayBody = "tool call"
               THEN [http EXCEPT !.pc = "responded",
                                 !.response = Response(200, "analysis")]
               ELSE catchResponse(http)
    /\ UNCHANGED notHttpVars
    /\ UNCHANGED serverVars

NextHttp ==
    \/ HttpMethod
    \/ HttpJson
    \/ HttpKey
    \/ HttpFetch
    \/ HttpResult
    \/ NextServer

SpecHttp == InitHttp /\ [][NextHttp]_vars

(***************************************************************************)
(* analyzeForgery, CNN variant: the tidy callback (audioProcessing.ts,     *)
(* lines 167-210) on matrices of 13-column integer rows.  The tensor is    *)
(* represented by its shape; the classifier's output is any of Scores.     *)
(***************************************************************************)
\* input matrices have at most MaxPadRows rows
MaxPadRows == 102
targetLength == 100
paddingWidth == 13

\* row r carries its own index: in the first column, or in every column
TaggedMatrix(n, constant) ==
    [r \in 1..n |-> IF constant THEN ConstRow(r) ELSE PadRow(<<r>>)]
PadInputs == {TaggedMatrix(n, constant) : n \in 0..MaxPadRows, constant \in BOOLEAN}

padOrTruncate_padOnly(processedFeatures) ==
    processedFeatures \o
        [d \in 1..Max(0, targetLength - Len(processedFeatures)) |->
            [j \in 1..paddingWidth |-> 0]]
\* lines 172-181
padOrTruncate(processedFeatures) ==
    IF Len(processedFeatures) < targetLength
    THEN processedFeatures \o
             [d \in 1..(targetLength - Len(processedFeatures)) |->
                 [j \in 1..paddingWidth |-> 0]]
    ELSE IF Len(processedFeatures) > targetLength
    THEN SubSeq(processedFeatures, 1, targetLength)
    ELSE processedFeatures

\* lines 190-195: the shape of tf.tensor3d([normalizedFeatures]); map keeps
\* the shape of processedFeatures, and tensor3d throws on ragged rows
tensorShape(processedFeatures) ==
    IF \A d \in 1..Len(processedFeatures) :
           Len(processedFeatures[d]) = Len(processedFeatures[1])
    THEN <<1, Len(processedFeatures), Len(processedFeatures[1])>>
    ELSE <<>>

\* lines 230-244 on a matrix with unit
analyzeSpectralAnomaly(m) ==
    MathMinOne(JsDiv(
        Cardinality({d \in 1..Len(m.rows) : isAnomalous(rowVariance(m.rows[d], m.unit))}),
        Len(m.rows)))

\* initializeModel has returned and forgeryModel is set; line 167 is next
InitCnn ==
    /\ \E m \in PadInputs :
         cnn = [pc |-> "copy", mfccFeatures |-> m, processedFeatures |-> <<>>,
                inputTensor |-> <<>>, score |-> Unset,
                temporalConsistency |-> Unset, spectralAnomaly |-> Unset,
                finalScore |-> Unset]
    /\ viz = NotRunning /\ http = NotRunning /\ loader = NotRunning
    /\ page = NotRunning /\ status = NotRunning
    /\ NotUiIdle

\* line 170: let processedFeatures = [...mfccFeatures]
CnnCopy ==
    /\ cnn.pc = "copy"
    /\ cnn' = [cnn EXCEPT !.pc = "pad", !.processedFeatures = cnn.mfccFeatures]
    /\ UNCHANGED notCnnVars

\* lines 172-181
CnnPad ==
    /\ cnn.pc = "pad"
    /\ cnn' = [cnn EXCEPT !.pc = "tensor",
                          !.processedFeatures = padOrTruncate(cnn.processedFeatures)]
    /\ UNCHANGED notCnnVars

\* lines 184-195
CnnTensor ==
    /\ cnn.pc = "tensor"
    /\ cnn' = [cnn EXCEPT !.pc = "predict",
                          !.inputTensor = tensorShape(cnn.processedFeatures)]
    /\ UNCHANGED notCnnVars

\* lines 198-199
CnnPredict ==
    /\ cnn.pc = "predict"
    /\ \E y \in Scores : cnn' = [cnn EXCEPT !.pc = "signals", !.score = y]
    /\ UNCHANGED notCnnVars

\* lines 203-204
CnnSignals ==
    /\ cnn.pc = "signals"
    /\ cnn' = [cnn EXCEPT
                 !.pc = "combine",
                 !.temporalConsistency =
                     analyzeTemporalConsistency([unit |-> 1, rows |-> cnn.mfccFeatures]),
                 !.spectralAnomaly =
                     analyzeSpectralAnomaly([unit |-> 1, rows |-> cnn.mfccFeatures])]
    /\ UNCHANGED notCnnVars

\* lines 207-209
CnnCombine ==
    /\ cnn.pc = "combine"
    /\ cnn' = [cnn EXCEPT !.pc = "done",
                          !.finalScore = combine(cnn.score, cnn.temporalConsistency,
                                                 cnn.spectralAnomaly)]
    /\ UNCHANGED notCnnVars

NextCnn == CnnCopy \/ CnnPad \/ CnnTensor \/ CnnPredict \/ CnnSignals \/ CnnCombine

SpecCnn == InitCnn /\ [][NextCnn]_vars

(***************************************************************************)
(* AnalysisResults, AI variant: getStatus (AnalysisResults.tsx, lines      *)
(* 176-188).  The prop result is null or the backend's report; its         *)
(* authenticity_score is a number of hundredths.                           *)
(***************************************************************************)
\* authenticity_score is 0/ScoreSteps, 1/ScoreSteps, ..., 1
ScoreSteps == 100
Verdicts == {"authentic", "uncertain", "forged"}
NoResult == [isNull |-> TRUE, verdict |-> "none", authenticity_score |-> Unset]
Results ==
    {NoResult} \cup
    {[isNull |-> FALSE, verdict |-> v, authenticity_score |-> Fin(n, ScoreSteps)] :
        v \in Verdicts, n \in 0..ScoreSteps}

\* x >= 0.8 and x >= 0.5 for a number x = num/den with den > 0
atLeastFourFifths(x) == x.kind = "fin" /\ 5 * x.num >= 4 * x.den
atLeastHalf(x) == x.kind = "fin" /\ 2 * x.num >= x.den

\* lines 176-188: the label of the status
getStatus(res) ==
    IF res.isNull THEN "Pending"
    ELSE IF res.verdict = "authentic" \/ atLeastFourFifths(res.authenticity_score)
    THEN "Authentic"
    ELSE IF res.verdict = "uncertain" \/ atLeastHalf(res.authenticity_score)
    THEN "Uncertain"
    ELSE "Forged"

\* the component is rendered with some result
InitStatus ==
    /\ \E res \in Results : status = [pc |-> "render", result |-> res, label |-> "none"]
    /\ viz = NotRunning /\ http = NotRunning /\ loader = NotRunning
    /\ page = NotRunning /\ cnn = NotRunning
    /\ NotUiIdle

\* line 190: const status = getStatus()
GetStatus ==
    /\ status.pc = "render"
    /\ status' = [status EXCEPT !.pc = "rendered", !.label = getStatus(status.result)]
    /\ UNCHANGED notStatusVars

NextStatus == GetStatus

SpecStatus == InitStatus /\ [][NextStatus]_vars

(***************************************************************************)
(* The temporal analysis of the edge function on matrices with arbitrary   *)
(* small frame deltas, and on matrices whose deltas are all equal.         *)
(***************************************************************************)
\* up to MaxOutlierDeltas deltas, each in 0..MaxDeltaValue
MaxOutlierDeltas == 6
MaxDeltaValue == 3
\* up to MaxEqualDeltas equal deltas
MaxEqualDeltas == 40

\* the sum of ds[1..d]
RECURSIVE prefixSum(_, _)
prefixSum(ds, d) == IF d = 0 THEN 0 ELSE ds[d] + prefixSum(ds, d - 1)

\* a matrix whose frame-to-frame deltas are ds: the first coefficient of
\* each row is the running sum, the others are 0
MatrixOfDeltas(ds) == [r \in 1..(Len(ds) + 1) |-> PadRow(<<prefixSum(ds, r - 1)>>)]
OutlierMatrices ==
    {MatrixOfDeltas(ds) :
        ds \in UNION {[1..n -> 0..MaxDeltaValue] : n \in 0..MaxOutlierDeltas}}
EqualDeltaMatrices ==
    {[r \in 1..(n + 1) |-> PadRow(<<r * c>>)] :
        n \in 1..MaxEqualDeltas, c \in 0..MaxDeltaValue}

InitOutlier ==
    /\ handlerPc = "diffs"
    /\ reqFeatures \in OutlierMatrices \cup EqualDeltaMatrices
    /\ frameDiffs = <<>>
    /\ avgDelta = Unset
    /\ maxDelta = Unset
    /\ deltaVariance = Unset
    /\ suspiciousFrames = <<>>
    /\ temporalAnalysis = NoAnalysis
    /\ NotServerIdle

SpecOutlier == InitOutlier /\ [][NextServer]_vars

(***************************************************************************)
(* Properties                                                              *)
(***************************************************************************)
ExtractDone == call = "extractMFCC" /\ pc = "done"
ScoreDone == call = "analyzeTemporalConsistency" /\ pc = "done"

IsOne(x) == x.kind = "fin" /\ x.den > 0 /\ x.num = x.den
InUnit(x) == x.kind = "fin" /\ x.den > 0 /\ 0 <= x.num /\ x.num <= x.den

RECURSIVE SetSum(_, _)
SetSum(S, f) ==
    IF S = {} THEN 0
    ELSE LET x == CHOOSE y \in S : TRUE IN f[x] + SetSum(S \ {x}, f)

\* the sum over rows 2..R and all columns of |M[r][j] - M[r-1][j]|
L1Drift(M) ==
    LET P == (2..Len(M)) \X (1..numCoefficients)
    IN SetSum(P, [p \in P |-> Abs(M[p[1]][p[2]] - M[p[1] - 1][p[2]])])

\* C1: whatever the signal length (below one frame, above 100 frames), the
\* matrix built by extractMFCC never has more than 100 rows and every row
\* has exactly 13 columns.
C1_ShapeInvariant ==
    call = "extractMFCC" =>
        /\ Len(mfccFeatures) <= 100
        /\ \A r \in 1..Len(mfccFeatures) : mfccFeatures[r] = 13

\* a signal that offers more than 100 frames was extracted to 100 rows
C1_Witness ==
    /\ ExtractDone
    /\ (channelLength - 2048) \div 512 > 100
    /\ Len(mfccFeatures) = 100
    /\ mfccFeatures[100] = 13

\* C2: for a signal of length L the returned row count is
\* min(100, max(0, floor((L - 2048) / 512))).
C2_FrameCount ==
    ExtractDone =>
        Len(mfccFeatures) = Min(100, Max(0, (channelLength - 2048) \div 512))

\* a signal between one and 100 frames was extracted
C2_Witness ==
    /\ ExtractDone
    /\ channelLength = 2048 + 7 * 512 + 511
    /\ Len(mfccFeatures) = 7

\* C3: only partial frames are dropped: below the cap, frame k is produced
\* exactly when k * 512 + 2048 does not exceed the signal length.
C3_OnlyPartialFramesDropped ==
    ExtractDone =>
        \A k \in 0..99 :
            (k < Len(frames)) <=> (k * 512 + 2048 <= channelLength)

\* C4: the k-th retained frame (k from 0) covers exactly the samples
\* [k * 512, k * 512 + 2048), frames are emitted in increasing k, and no
\* retained frame reads past the end of the signal.
C4_FramesInsideSignal ==
    call = "extractMFCC" =>
        /\ Len(frames) = Len(mfccFeatures)
        /\ \A r \in 1..Len(frames) :
            /\ frames[r].start = (r - 1) * 512
            /\ frames[r].end = (r - 1) * 512 + 2048
            /\ frames[r].end <= channelLength

\* four full frames were read from a signal of 4096 samples
C4_Witness ==
    /\ ExtractDone
    /\ channelLength = 4096
    /\ Len(frames) = 4
    /\ frames[4] = [start |-> 1536, end |-> 3584]

\* C5: when the signal offers more than 100 frames, the matrix holds exactly
\* the frames 0..99, in frame order.
C5_CapTruncates ==
    (ExtractDone /\ (channelLength - 2048) \div 512 > 100) =>
        /\ Len(frames) = 100
        /\ Len(mfccFeatures) = 100
        /\ \A r \in 1..100 :
            frames[r] = [start |-> (r - 1) * 512, end |-> (r - 1) * 512 + 2048]

\* the 100th row of a capped matrix is frame 99, frame 100 exists and is cut
C5_Witness ==
    /\ ExtractDone
    /\ channelLength >= 100 * 512 + 2048
    /\ Len(frames) = 100
    /\ frames[100].start = 99 * 512
    /\ frames[1].start = 0

\* C6: with sampleRate <= 0 or an empty signal the extraction fails with
\* InvalidInput before any frame is processed.
C6_InvalidInputRejected ==
    (ExtractDone /\ (sampleRate <= 0 \/ channelLength = 0)) =>
        /\ result = "InvalidInput"
        /\ frames = <<>>

\* C7: a non-empty signal shorter than one frame, with a positive sample
\* rate, is extracted to a matrix of 0 rows, without an error.
C7_ShortSignalZeroRows ==
    (ExtractDone /\ 0 < channelLength /\ channelLength < 2048 /\ sampleRate > 0) =>
        /\ result = "returned"
        /\ mfccFeatures = <<>>

\* a signal of 2047 samples was extracted
C7_Witness ==
    /\ ExtractDone
    /\ channelLength = 2047
    /\ sampleRate = 44100
    /\ result = "returned"
    /\ Len(mfccFeatures) = 0

\* C8: the temporal-consistency score of a matrix with fewer than 2 rows
\* (0 rows or 1 row) is exactly 1.
C8_NeutralBelowTwoRows ==
    (ScoreDone /\ Len(matrix) < 2) => IsOne(consistency)

\* C9: the temporal-consistency score of every matrix lies in [0,1], and is
\* 1 when all rows are identical.
C9_ConsistencyInUnit ==
    ScoreDone =>
        /\ InUnit(consistency)
        /\ (\A r \in 1..Len(matrix) : matrix[r] = matrix[1]) => IsOne(consistency)

\* C10: for R >= 1 rows the score is 1 - min(1, S / (R * 100)), S the summed
\* frame-to-frame L1 drift; for two rows, the second the first plus 5 in
\* every column, it is 0.675.
C10_ConsistencyFormula ==
    (ScoreDone /\ Len(matrix) >= 1) =>
        LET R == Len(matrix)
            S == L1Drift(matrix)
        IN /\ consistency.kind = "fin"
           /\ consistency.den > 0
           /\ consistency.num * (R * 100)
                = (R * 100 - Min(S, R * 100)) * consistency.den
           /\ (R = 2 /\ \A j \in 1..13 : matrix[2][j] = matrix[1][j] + 5)
                => consistency.num * 1000 = 675 * consistency.den

\* the two-row matrix of the scenario was scored
C10_Witness ==
    /\ ScoreDone
    /\ matrix = <<ConstRow(-5), ConstRow(0)>>
    /\ totalVariance = 65
    /\ consistency.num * 1000 = 675 * consistency.den

ForgeryDone == ppc = "done"
ZeroColumns(m) == Len(m.rows) >= 1 /\ \A r \in 1..Len(m.rows) : Len(m.rows[r]) = 0

\* 169 * unit^2 times the population variance of a 13-column row, as
\* 13 * (sum of squares) - (square of the sum)
ScaledVariance(row) ==
    LET J == 1..13
    IN 13 * SetSum(J, [j \in J |-> row[j] * row[j]])
         - SetSum(J, [j \in J |-> row[j]]) * SetSum(J, [j \in J |-> row[j]])

\* variance > 100 or variance < 0.01, strictly, for a 13-column row
OutsideBand(row, unit) ==
    \/ ScaledVariance(row) > 100 * 169 * unit * unit
    \/ /\ ScaledVariance(row) < 169 * unit * unit
       /\ 100 * ScaledVariance(row) < 169 * unit * unit

FlaggedRows(m) == {r \in 1..Len(m.rows) : OutsideBand(m.rows[r], m.unit)}

\* C11: for R >= 1 rows of 13 columns the anomaly ratio is the number of rows
\* with population variance > 100 or < 0.01 (both strict) divided by R, and
\* lies in [0,1]; rows of variance exactly 100, exactly 0.01 or 50 are not
\* flagged.
C11_AnomalyRatio ==
    (ForgeryDone /\ Len(features.rows) >= 1 /\ ~ZeroColumns(features)) =>
        /\ InUnit(spectralAnomaly)
        /\ spectralAnomaly.num * Len(features.rows)
             = Cardinality(FlaggedRows(features)) * spectralAnomaly.den
        /\ (\A r \in 1..Len(features.rows) :
               features.rows[r] \in {RowVar100, RowVarHundredth, RowVar50})
             => spectralAnomaly.num = 0

\* rows at both thresholds and one just above 100 were scored: ratio 1/3
C11_Witness ==
    /\ ForgeryDone
    /\ features.rows = <<RowVar100, RowVarAbove100, RowVarHundredth>>
    /\ anomalyScore = 1
    /\ spectralAnomaly.num * 3 = spectralAnomaly.den

\* C12: a matrix with rows of 0 columns is rejected (no signal is computed
\* for it), and a matrix of 0 rows yields defined values for the
\* consistency and the anomaly signal.
C12_ScoreInputContract ==
    /\ ZeroColumns(features) =>
          temporalConsistency = Unset /\ spectralAnomaly = Unset
    /\ (ForgeryDone /\ Len(features.rows) = 0) =>
          IsOne(temporalConsistency) /\ InUnit(spectralAnomaly)

\* C17: the final authenticity score is within [0,1] for every matrix,
\* the 0-row matrix included, and every classifier output.
C17_FinalScoreInUnit ==
    ForgeryDone => InUnit(finalScore)

OneSecondSilence == sig = [length |-> 44100, sampleRate |-> 44100]

\* C13 (as stated): for the 1-second 44100 Hz all-zero signal the matrix has
\* 82 rows and the scorer reports consistency 1.0 and anomaly ratio 0.0.
C13_SilenceScoresAsStated ==
    (ForgeryDone /\ OneSecondSilence) =>
        /\ Len(features.rows) = 82
        /\ IsOne(temporalConsistency)
        /\ spectralAnomaly.kind = "fin" /\ spectralAnomaly.num = 0

\* C13 (amended): for the 1-second 44100 Hz all-zero signal the matrix has
\* 82 rows and the scorer reports consistency 1.0 and anomaly ratio 1.0.
C13_SilenceScores ==
    (ForgeryDone /\ OneSecondSilence) =>
        /\ Len(features.rows) = 82
        /\ IsOne(temporalConsistency)
        /\ IsOne(spectralAnomaly)

\* the one-second silent signal went through extraction and scoring
C13_Witness ==
    /\ ForgeryDone
    /\ OneSecondSilence
    /\ Len(features.rows) = 82
    /\ anomalyScore = 82

\* C14 (as stated): every row of the matrix of an all-zero signal has
\* variance exactly 0, the 'variance < 0.01' branch flags it, and the
\* anomaly ratio is 1.0.
C14_SilenceVarianceAsStated ==
    (ForgeryDone /\ sig # NoSignal /\ Len(features.rows) >= 1) =>
        /\ \A r \in 1..Len(features.rows) :
              LET v == rowVariance(features.rows[r], features.unit)
              IN v.num = 0 /\ lessThanHundredth(v) /\ ~greaterThan100(v)
        /\ IsOne(spectralAnomaly)

\* C14 (amended): every row of the matrix of an all-zero signal is
\* (26 * log(1e-10), 0, ..., 0), its variance is far above 100, the
\* 'variance > 100' branch flags it, and the anomaly ratio is 1.0.
C14_SilenceVariance ==
    (ForgeryDone /\ sig # NoSignal /\ Len(features.rows) >= 1) =>
        /\ \A r \in 1..Len(features.rows) :
              LET row == features.rows[r]
                  v == rowVariance(row, features.unit)
              IN /\ row[1] = -599
                 /\ \A j \in 2..13 : row[j] = 0
                 /\ greaterThan100(v)
                 /\ ~lessThanHundredth(v)
                 /\ v.num > 25000 * v.den
        /\ IsOne(spectralAnomaly)

\* a silent signal of 3072 samples gave two rows, both flagged
C14_Witness ==
    /\ ForgeryDone
    /\ sig.length = 3072
    /\ Len(features.rows) = 2
    /\ features.rows[2][1] = -599
    /\ anomalyScore = 2

ServerDone == handlerPc = "assembled"

\* the sum of f[lo], ..., f[hi]
RECURSIVE RangeSum(_, _, _)
RangeSum(f, lo, hi) ==
    IF lo > hi THEN 0
    ELSE IF lo = hi THEN f[lo]
    ELSE RangeSum(f, lo, (lo + hi) \div 2) + RangeSum(f, (lo + hi) \div 2 + 1, hi)

\* the L1 delta between rows d and d + 1 of a 13-column matrix
DeltaAt(m, d) ==
    LET J == 1..13 IN SetSum(J, [j \in J |-> Abs(m[d + 1][j] - m[d][j])])

\* delta d of the matrix is strictly above mean + 2 * standard deviation of
\* all n deltas (population statistics):  with S the sum of the deltas and
\* T the sum of their squares, n * x > S and (n * x - S)^2 > 4 * (n * T - S^2)
AboveTwoSigma(m, d) ==
    LET n == Len(m) - 1
        S == RangeSum([e \in 1..n |-> DeltaAt(m, e)], 1, n)
        T == RangeSum([e \in 1..n |-> DeltaAt(m, e) * DeltaAt(m, e)], 1, n)
        x == DeltaAt(m, d)
    IN /\ n * x > S
       /\ (n * x - S) * (n * x - S) > 4 * (n * T - S * S)

Flagged(m) == {d \in 1..(Len(m) - 1) : AboveTwoSigma(m, d)}

\* C16: a frame is flagged exactly when its delta is strictly greater than
\* mean + 2 * standard deviation of all deltas; the reported list holds at
\* most 10 entries, the first flagged frames in ascending index order;
\* suspiciousFrameCount counts all flagged frames.
C16_SuspiciousFrames ==
    ServerDone =>
        LET list == temporalAnalysis.suspiciousFrames
            flagged == Flagged(reqFeatures)
        IN /\ temporalAnalysis.suspiciousFrameCount = Cardinality(flagged)
           /\ Len(list) = Min(10, Cardinality(flagged))
           /\ \A x \in 1..Len(list) :
                /\ list[x].frame + 1 \in flagged
                /\ list[x].delta = DeltaAt(reqFeatures, list[x].frame + 1)
                /\ \A y \in 1..Len(list) : x < y => list[x].frame < list[y].frame
                /\ \A d \in flagged :
                     d < list[x].frame + 1 => \E y \in 1..x : list[y].frame + 1 = d

\* twelve frames were flagged, ten of them reported
C16_Witness ==
    /\ ServerDone
    /\ temporalAnalysis.suspiciousFrameCount = 12
    /\ Len(temporalAnalysis.suspiciousFrames) = 10
    /\ temporalAnalysis.suspiciousFrames[1].frame = 10

WindowDone == windowPc = "done"

\* entry k of the output is c hundredths of entry k of the input
ScaledBy(k, c) ==
    /\ windowed[k].kind = "fin"
    /\ windowed[k].num * 100 = c * windowFrame[k] * windowed[k].den

\* C18: applyHammingWindow is the identity on frames of fewer than 2
\* samples (no division by zero), and keeps the length for N >= 2.
C18_ShortFrameIdentity ==
    WindowDone =>
        /\ Len(windowed) = Len(windowFrame)
        /\ Len(windowFrame) < 2 =>
             \A k \in 1..Len(windowFrame) : ScaledBy(k, 100)

\* C19 (as stated): for every N >= 2 the coefficient is 0.08 at index 0 and
\* at index N-1 and 1.0 at the midpoint, for even N at one of the two
\* indices next to (N-1)/2.
C19_CoefficientsAsStated ==
    (WindowDone /\ Len(windowFrame) >= 2) =>
        LET n == Len(windowFrame)
        IN /\ ScaledBy(1, 8)
           /\ ScaledBy(n, 8)
           /\ \E k \in {(n - 1) \div 2 + 1, n \div 2 + 1} : ScaledBy(k, 100)

\* C19 (amended): for every N >= 2 the coefficient is 0.08 at index 0 and
\* at index N-1; for odd N it is 1.0 at index (N-1)/2; for even N no index
\* has coefficient 1.0.
C19_Coefficients ==
    (WindowDone /\ Len(windowFrame) >= 2) =>
        LET n == Len(windowFrame)
        IN /\ ScaledBy(1, 8)
           /\ ScaledBy(n, 8)
           /\ n % 2 = 1 => ScaledBy((n - 1) \div 2 + 1, 100)
           /\ n % 2 = 0 => \A k \in 1..n : ~ScaledBy(k, 100)

\* a 7-sample frame was windowed: 0.08 at both ends, 1.0 in the middle
C19_Witness ==
    /\ WindowDone
    /\ Len(windowFrame) = 7
    /\ windowFrame[4] = -1
    /\ windowed[4] = Fin(-100, 100)
    /\ windowed[1] = Fin(8 * windowFrame[1], 100)
    /\ windowed[7] = Fin(8 * windowFrame[7], 100)

\* C20: every row the History page shows to a signed-in user has user_id
\* equal to that user's id, whatever the other users inserted.
C20_HistoryPerUser ==
    \A u \in DOMAIN analyses :
        \A d \in 1..Len(analyses[u]) : analyses[u][d].user_id = u

\* C22: for a matrix of fewer than 2 rows the summary holds finite values:
\* avgFrameDelta, maxFrameDelta and deltaVariance are finite numbers and
\* suspiciousFrameCount is 0.
C22_ShortMatrixSummaryFinite ==
    (ServerDone /\ Len(reqFeatures) < 2) =>
        /\ temporalAnalysis.avgFrameDelta.kind = "fin"
        /\ temporalAnalysis.maxFrameDelta.kind = "fin"
        /\ temporalAnalysis.deltaVariance.kind = "fin"
        /\ temporalAnalysis.suspiciousFrameCount = 0

\* C21: a 0-row feature matrix passes through the upload flow without an
\* exception: the render effect of MFCCVisualizer completes for
\* mfccData = [] (no access to a missing first row).
C21_EmptyMatrixRenders ==
    viz.pc = "TypeError" => viz.mfccData # Some(<<>>)

\* C23: under any interleaving of overlapping initializeModel and
\* analyzeForgery calls the model is built at most once, and forgeryModel,
\* once set, is never replaced by another instance (it stays null or the
\* first instance).
C23_ModelBuiltOnce ==
    loader.built <= 1 /\ loader.forgeryModel \in {0, 1}

InFlight(r) == page.runs[r].at \notin {"idle", "done"}

\* C24: the displayed analysisResult and mfccData belong to the file whose
\* audioBuffer and fileName are displayed; a result of an earlier upload is
\* never shown for a later file.  (While audioBuffer is null the panels are
\* not rendered at all.)
C24_DisplayedResultMatchesFile ==
    page.audioBuffer # 0 =>
        /\ page.fileName = page.audioBuffer
        /\ page.mfccData \in {0, page.audioBuffer}
        /\ page.analysisResult \in {0, page.audioBuffer}

Starts(r) == page.runs[r].at = "idle" /\ page'.runs[r].at # "idle"
Ends(r) == page.runs[r].at # "done" /\ page'.runs[r].at = "done"

\* C25: every run of handleFileSelect sets isProcessing to true at its
\* start and, its promises settling, eventually sets it back to false
\* however the run ends; only the end of a run clears the flag, so with a
\* single run in flight it is true from the start of the run to its end.
C25_ProcessingFlag ==
    /\ [][\A r \in Runs : /\ Starts(r) => page'.isProcessing
                          /\ Ends(r) => ~page'.isProcessing]_vars
    /\ [][(page.isProcessing /\ ~page'.isProcessing) => \E r \in Runs : Ends(r)]_vars
    /\ \A r \in Runs : InFlight(r) ~> (page.runs[r].at = "done")

\* a run ended in the catch block after the analysis threw and the flag is
\* cleared with no run in flight
C25_Witness ==
    /\ page.runs[1].failedAt = "analyzeForgery"
    /\ page.runs[1].at = "done"
    /\ \A r \in Runs : ~InFlight(r)
    /\ ~page.isProcessing

Throws(r) == page.runs[r].failedAt = "none" /\ page'.runs[r].failedAt # "none"
InsertFails(r) == page.runs[r].insert # "dbError" /\ page'.runs[r].insert = "dbError"

\* C26: an insert is attempted only after analyzeForgery returned a result
\* for that file and only with a signed-in user; a run whose decoding or
\* analysis throws attempts no insert and leaves analysisResult as it was;
\* a failed insert leaves analysisResult as it was and ends with the
\* completion toast, not the error toast.
C26_InsertOnlyAfterResult ==
    /\ [](\A r \in Runs :
            /\ page.runs[r].insert # "none" =>
                 page.user /\ page.runs[r].result = "returned"
            /\ page.runs[r].failedAt # "none" =>
                 page.runs[r].insert = "none" /\ page.runs[r].result = "none"
            /\ page.runs[r].insert = "dbError" => page.runs[r].toast = "complete")
    /\ [][\A r \in Runs :
            (Throws(r) \/ InsertFails(r)) =>
                page'.analysisResult = page.analysisResult]_vars

\* the insert of run 1 failed: its result is still displayed and the run
\* ended with the completion toast
C26_Witness ==
    /\ page.runs[1].insert = "dbError"
    /\ page.runs[1].toast = "complete"
    /\ page.analysisResult = 1
    /\ page.audioBuffer = 1

\* the request reaches the gateway: body parsed, key configured, summary done
ReachesGateway ==
    http.method # "OPTIONS" /\ http.body = "features" /\ http.LOVABLE_API_KEY

\* C27: an OPTIONS request is answered without reading the body; any other
\* request gets 429 when the gateway answers 429, 402 when it answers 402,
\* 200 only when a tool call was returned and its arguments parsed, and 500
\* with an {error} body for every other failure; every response carries
\* the CORS headers.
C27_ResponseMapping ==
    http.pc = "responded" =>
        /\ http.response.cors
        /\ http.method = "OPTIONS" =>
             ~http.bodyRead /\ http.response = Response(200, "null")
        /\ http.method # "OPTIONS" =>
             /\ http.response.status \in {200, 402, 429, 500}
             /\ http.response.status = 429 <=>
                  (ReachesGateway /\ http.gatewayStatus = 429)
             /\ http.response.status = 402 <=>
                  (ReachesGateway /\ http.gatewayStatus = 402)
             /\ http.response.status = 200 <=>
                  (ReachesGateway /\ http.gatewayStatus = 200
                                  /\ http.gatewayBody = "tool call")
             /\ http.response.body =
                  (IF http.response.status = 200 THEN "analysis" ELSE "error")

\* the gateway answered 402 and the handler answered 402 with an error body
C27_Witness ==
    /\ http.pc = "responded"
    /\ http.method = "POST"
    /\ http.gatewayStatus = 402
    /\ http.response = Response(402, "error")
    /\ handlerPc = "assembled"

\* C28: the matrix handed to the model has exactly 100 rows of 13 values;
\* before normalisation its first min(R,100) rows are the input rows in
\* order and the other rows are all zeros; mfccFeatures itself is never
\* modified; the temporal and anomaly signals are those of the unpadded
\* input (for R >= 1: 1 - min(L1 drift / (100 R), 1) and flagged rows / R).
C28_PaddedInput ==
    /\ [](cnn.pc \in {"predict", "signals", "combine", "done"} =>
            LET R == Len(cnn.mfccFeatures)
            IN /\ cnn.inputTensor = <<1, 100, 13>>
               /\ Len(cnn.processedFeatures) = 100
               /\ \A d \in 1..100 :
                    /\ Len(cnn.processedFeatures[d]) = 13
                    /\ d <= R => cnn.processedFeatures[d] = cnn.mfccFeatures[d]
                    /\ d > R => \A j \in 1..13 : cnn.processedFeatures[d][j] = 0)
    /\ [](cnn.pc \in {"combine", "done"} /\ Len(cnn.mfccFeatures) >= 1 =>
            LET R == Len(cnn.mfccFeatures)
                S == RangeSum([d \in 1..(R - 1) |-> DeltaAt(cnn.mfccFeatures, d)],
                              1, R - 1)
                tc == cnn.temporalConsistency
                sa == cnn.spectralAnomaly
            IN /\ tc.kind = "fin"
               /\ tc.num * (R * 100) = (R * 100 - Min(S, R * 100)) * tc.den
               /\ sa.kind = "fin"
               /\ sa.num * R =
                    Cardinality(FlaggedRows([unit |-> 1, rows |-> cnn.mfccFeatures]))
                      * sa.den)
    /\ [][cnn'.mfccFeatures = cnn.mfccFeatures]_vars

\* a 102-row matrix was truncated to its first 100 rows and scored
C28_Witness ==
    /\ cnn.pc = "done"
    /\ Len(cnn.mfccFeatures) = 102
    /\ Len(cnn.processedFeatures) = 100
    /\ cnn.processedFeatures[100] = PadRow(<<100>>)

\* C29: the status label agrees with the backend's verdict: 'Forged' for
\* 'forged', 'Uncertain' for 'uncertain', 'Authentic' for 'authentic', for
\* every authenticity_score in [0,1].
C29_LabelAgreesWithVerdict ==
    (status.pc = "rendered" /\ ~status.result.isNull) =>
        status.label = (CASE status.result.verdict = "forged" -> "Forged"
                          [] status.result.verdict = "uncertain" -> "Uncertain"
                          [] status.result.verdict = "authentic" -> "Authentic")

\* all frame-to-frame deltas of the matrix are equal
EqualDeltas(m) ==
    \A d \in 1..(Len(m) - 1) : DeltaAt(m, d) = DeltaAt(m, 1)

\* C30: with 5 or fewer frame deltas (a matrix of at most 6 rows) the rule
\* delta > mean + 2 * sqrt(population variance) flags no frame, whatever
\* the deltas; with any number of deltas it flags none when all are equal.
C30_NoFlagOnFewOrEqualDeltas ==
    (ServerDone /\ (Len(reqFeatures) <= 6 \/ EqualDeltas(reqFeatures))) =>
        /\ temporalAnalysis.suspiciousFrameCount = 0
        /\ temporalAnalysis.suspiciousFrames = <<>>

\* five deltas with one far above the others: nothing flagged
C30_Witness ==
    /\ ServerDone
    /\ frameDiffs = <<0, 0, 0, 0, 3>>
    /\ temporalAnalysis.suspiciousFrameCount = 0

====
